---- MODULE Spec2Model ----
(***************************************************************************)
(* Model of audio-midi/audio_processor.py: the process_audio pipeline      *)
(* (original-mix transcription, Demucs separation, per-stem silence check  *)
(* and transcription, classifier fallback, aggregation) together with the  *)
(* command-line entry point that calls it.                                 *)
(*                                                                         *)
(* External collaborators (librosa, basic-pitch, Demucs, the filesystem)   *)
(* are modelled as nondeterministic choices over the outcomes they can     *)
(* produce: return a value or raise.                                       *)
(***************************************************************************)
EXTENDS Integers, Sequences, FiniteSets, TLC

(***************************************************************************)
(* Bounds and program constants                                            *)
(***************************************************************************)

\* longest note list the pitch-detection model returns in the model
MaxNotes == 1

\* amplitudes are integers in units of 0.0001 of full scale;
\* the silence threshold 0.001 (line 222) is 10 units
SilenceThreshold == 10

\* peak amplitudes a stem can have: zero, just below, at and above threshold
Amps == {0, SilenceThreshold - 1, SilenceThreshold, SilenceThreshold + 1}

\* model.sources of the 'htdemucs' model, in declared order
DeclaredStems == <<"drums", "bass", "other", "vocals">>

StemNames == {DeclaredStems[k] : k \in 1..Len(DeclaredStems)}

\* results["error"] = None
None == <<>>

\* messages of the exceptions the external calls raise
LoadError == "could not open audio"
ModelError == "model invocation failed"
EmptyError == "zero-size array to reduction operation maximum"

\* the default of the max_duration parameter (lines 50, 103, 164)
DefaultMaxDuration == 300

\* values of max_duration a caller passes: below and at the default
MaxDurations == {100, DefaultMaxDuration}

\* durations of the input file: shorter and longer than the default cap
InputDurations == {200, 400}

\* a note of midi_data.instruments[0].notes (velocity in MIDI units 0..127)
MidiNotePool == {[pitch |-> 60, start |-> 0, end |-> 1, velocity |-> 100]}

RECURSIVE SeqsUpTo(_, _)
SeqsUpTo(S, n) ==
    IF n = 0 THEN {<<>>}
    ELSE LET shorter == SeqsUpTo(S, n - 1)
         IN  shorter \cup {Append(s, x) : s \in {t \in shorter : Len(t) = n - 1}, x \in S}

\* the note lists predict() can return
MidiNoteLists == SeqsUpTo(MidiNotePool, MaxNotes)

\* a row of the note_events array of predict(): start, end, pitch,
\* amplitude (in hundredths)
NoteEventPool == {[start_time_s |-> 0, end_time_s |-> 1, pitch |-> 60, amplitude |-> 50]}

\* the note_events arrays predict() can return
NoteEventLists == SeqsUpTo(NoteEventPool, MaxNotes)

(***************************************************************************)
(* State                                                                   *)
(***************************************************************************)
VARIABLES
    pc,               \* position in __main__ / process_audio
    use_demucs,       \* argument of process_audio
    DEMUCS_AVAILABLE, \* module-level flag set by the import at lines 17-25
    input_exists,     \* os.path.exists(input_file)
    dir_creatable,    \* whether output_path.mkdir succeeds
    results,          \* the dict built and returned by process_audio
    stems,            \* items of the dict returned by separate_audio_demucs
    i,                \* index of the stem the loop at line 208 is at
    instrument_type,  \* label of the fallback branch (line 254)
    calls,            \* log of the calls made to the collaborators, in order
    outcome,          \* per audio source: what the run did with it
    amp,              \* per declared stem: the measured peak amplitude, -1 if none
    max_duration,     \* argument of process_audio, in seconds
    input_len,        \* duration of the input file, in seconds (0 if missing)
    predicted,        \* per audio source: seconds of audio handed to predict(), -1 if none
    raised,           \* message of the exception a collaborator raised, None if none
    features,         \* the spectral features classify_instrument computed
    node_result       \* the JSON record node_transcribe.py prints

vars == <<pc, use_demucs, DEMUCS_AVAILABLE, input_exists, dir_creatable,
          results, stems, i, instrument_type, calls, outcome, amp,
          max_duration, input_len, predicted, raised, features, node_result>>

(***************************************************************************)
(* Pure helpers                                                            *)
(***************************************************************************)

\* lines 75-81: one pretty_midi note converted into the note dict
NoteDict(note) ==
    [pitch |-> note.pitch, start |-> note.start,
     duration |-> note.end - note.start, velocity |-> note.velocity]

\* lines 71-81: the loop over midi_data.instruments[0].notes
ConvertNotes(midi_notes) == [k \in 1..Len(midi_notes) |-> NoteDict(midi_notes[k])]

\* the success dict reporting the instrument count of line 72 as note_count
AudioToMidiSuccess_CountsInstruments(instrument_name, midi_notes) ==
    LET notes == ConvertNotes(midi_notes)
    IN  [success |-> TRUE, notes |-> notes, note_count |-> 1,
         error |-> None, instrument |-> instrument_name]

\* lines 85-91: the success dict of audio_to_midi
AudioToMidiSuccess(instrument_name, midi_notes) ==
    LET notes == ConvertNotes(midi_notes)
    IN  [success |-> TRUE, notes |-> notes, note_count |-> Len(notes),
         error |-> None, instrument |-> instrument_name]

\* lines 92-100: the failure dict of audio_to_midi
AudioToMidiFailure(instrument_name, msg) ==
    [success |-> FALSE, notes |-> <<>>, note_count |-> 0,
     error |-> <<msg>>, instrument |-> instrument_name]

\* lines 50-100: every result audio_to_midi can return for a file; an
\* unreadable file makes librosa.load raise, which the except turns into a
\* failure dict; so does a raising predict()
audio_to_midi(readable, instrument_name) ==
    {AudioToMidiFailure(instrument_name, LoadError)}
    \cup (IF readable
          THEN {AudioToMidiFailure(instrument_name, ModelError)}
               \cup {AudioToMidiSuccess(instrument_name, ns) : ns \in MidiNoteLists}
          ELSE {})

\* the silence test with the threshold itself counted as silent
IsSilent_Inclusive(max_amplitude) == max_amplitude <= SilenceThreshold

\* lines 58, 122: librosa.load(path, duration=d) keeps the first d seconds
LoadedDuration(file_len, duration) == IF file_len < duration THEN file_len ELSE duration

\* lines 58-63: the seconds of audio predict() receives: the truncated
\* buffer y of line 58 is not used, predict is given audio_path, the whole
\* file; nothing when librosa.load raised before it
PredictInput(r, file_len, duration) ==
    IF r.error = <<LoadError>> THEN -1 ELSE file_len

\* lines 122, 151: the stems are cut from the first max_duration seconds
StemDuration == LoadedDuration(input_len, max_duration)

\* the underlying message re-raised unchanged
SeparationError_Verbatim(m) == <<m>>

\* line 161: the exception separate_audio_demucs raises for an underlying one
SeparationError(m) == <<"Demucs separation failed: ", m>>

\* a failed separation falling back to the classifier branch
OnSeparationError_FallBack == "classify"

\* lines 274-278: after the handler process_audio returns
OnSeparationError == "returned"

\* the default instrument_name of audio_to_midi used as the error label
ClassifyOnError_Unknown == "unknown"

\* lines 45-47: the label classify_instrument returns on an exception
ClassifyOnError == "other"

\* the features record when nothing was computed
NoFeatures == [ok |-> FALSE, centroid |-> 0, rolloff |-> 0, zcr |-> 0]

\* node_transcribe.py lines 50-61: one note_events row as a note dict
NodeNote(note_event) ==
    [pitch |-> note_event.pitch, start |-> note_event.start_time_s,
     duration |-> note_event.end_time_s - note_event.start_time_s]

\* node_transcribe.py lines 50-70: the record main() prints
NodeResult(note_events) ==
    [success |-> TRUE,
     note_count |-> Len(note_events),
     notes |-> [k \in 1..Len(note_events) |-> NodeNote(note_events[k])]]

\* line 222: the silence test on the peak amplitude
IsSilent(max_amplitude) == max_amplitude < SilenceThreshold

\* the stem name used as the label without the remapping
StemInstrument_Identity(stem_name) == stem_name

\* lines 229-231: stem name to instrument label
StemInstrument(stem_name) == IF stem_name = "other" THEN "transcribed" ELSE stem_name

\* the branch guard without the availability test
SeparationBranch_RequestedOnly(requested, available) == requested

\* the branch guard without the test of the caller's request
SeparationBranch_AvailableOnly(requested, available) == available

\* line 200: the guard of the separation branch
SeparationBranch(requested, available) == requested /\ available

\* lines 187-194: the track of the original mix
OriginalTrack(r) ==
    [stem |-> "original", instrument |-> "transcribed",
     notes |-> r.notes, note_count |-> r.note_count]

\* lines 241-248: the track of a separated stem
StemTrack(stem_name, instrument, r) ==
    [stem |-> stem_name, instrument |-> instrument,
     notes |-> r.notes, note_count |-> r.note_count]

\* lines 259-266: the track of the full mix
FullTrack(instrument, r) ==
    [stem |-> "full", instrument |-> instrument,
     notes |-> r.notes, note_count |-> r.note_count]

\* the track inserted at the front instead of appended
AddTrack_Prepend(res, track) == [res EXCEPT !.tracks = <<track>> \o @]

\* lines 195, 241, 259: results["tracks"].append(track)
AddTrack(res, track) == [res EXCEPT !.tracks = Append(@, track)]

\* a track added whatever the transcription returned
AddIfSuccess_Always(res, r, track) == [res EXCEPT !.tracks = Append(@, track)]

\* a track added for a failed transcription and dropped for a successful one
AddIfSuccess_Inverted(res, r, track) == IF r.success THEN res ELSE AddTrack(res, track)

\* lines 186, 240, 258: a track is added only for a successful transcription
AddIfSuccess(res, r, track) == IF r.success THEN AddTrack(res, track) ELSE res

\* the handler also emptying the tracks list of the failed run
Handler_ClearsTracks(res, msg) == [res EXCEPT !.error = msg, !.tracks = <<>>]

\* lines 274-276: the top-level except: only the error field changes
Handler(res, msg) == [res EXCEPT !.error = msg]

\* success computed from the notes found instead of the tracks produced
Aggregate_AnyNotes(res) ==
    [res EXCEPT !.success = \E k \in 1..Len(res.tracks) : Len(res.tracks[k].notes) > 0]

\* line 272: the aggregation
Aggregate(res) == [res EXCEPT !.success = Len(res.tracks) > 0]

\* the classifier with the piano rule tried before the guitar rule
classify_instrument_PianoFirst(spectral_centroid, spectral_rolloff, zero_crossing_rate) ==
    IF spectral_centroid > 3000 /\ zero_crossing_rate < 10
    THEN (IF spectral_rolloff > 5000 THEN "brass" ELSE "strings")
    ELSE IF 1000 < spectral_centroid /\ spectral_centroid < 2500 THEN "piano"
    ELSE IF zero_crossing_rate > 15 THEN "guitar"
    ELSE "synth"

\* lines 28-47: classify_instrument on the mean spectral features
\* (zero-crossing rate in hundredths)
classify_instrument(spectral_centroid, spectral_rolloff, zero_crossing_rate) ==
    IF spectral_centroid > 3000 /\ zero_crossing_rate < 10
    THEN (IF spectral_rolloff > 5000 THEN "brass" ELSE "strings")
    ELSE IF zero_crossing_rate > 15 THEN "guitar"
    ELSE IF 1000 < spectral_centroid /\ spectral_centroid < 2500 THEN "piano"
    ELSE "synth"

Centroids == {1000, 1500, 2500, 3000, 3001}
Rolloffs == {5000, 5001}
Zcrs == {9, 10, 15, 16}

(***************************************************************************)
(* Initial state: the process is started, either from the command line     *)
(* (pc = "main"), by a direct call of process_audio (pc = "mkdir"), or as  *)
(* the standalone transcription script (pc = "node_main")                  *)
(***************************************************************************)
Init ==
    /\ \/ /\ pc = "main"
          /\ max_duration = DefaultMaxDuration
          /\ use_demucs \in BOOLEAN
          /\ DEMUCS_AVAILABLE \in BOOLEAN
          /\ input_exists \in BOOLEAN
          /\ dir_creatable \in BOOLEAN
       \/ /\ pc = "mkdir"
          /\ max_duration \in MaxDurations
          /\ use_demucs \in BOOLEAN
          /\ DEMUCS_AVAILABLE \in BOOLEAN
          /\ input_exists \in BOOLEAN
          /\ dir_creatable \in BOOLEAN
       \/ /\ pc = "node_main"
          /\ max_duration = DefaultMaxDuration
          /\ use_demucs = FALSE
          /\ DEMUCS_AVAILABLE = FALSE
          /\ input_exists = TRUE
          /\ dir_creatable = TRUE
    /\ input_len \in IF input_exists THEN InputDurations ELSE {0}
    /\ predicted = [s \in StemNames \cup {"original", "full"} |-> -1]
    /\ raised = None
    /\ features = NoFeatures
    /\ node_result = [success |-> FALSE, note_count |-> 0, notes |-> <<>>]
    /\ results = [success |-> FALSE, tracks |-> <<>>, error |-> None]
    /\ stems = <<>>
    /\ i = 0
    /\ instrument_type = "unset"
    /\ calls = <<>>
    /\ outcome = [s \in StemNames \cup {"original", "full"} |-> "pending"]
    /\ amp = [s \in StemNames |-> -1]

(***************************************************************************)
(* Actions                                                                 *)
(***************************************************************************)

\* lines 290-294: __main__ exits with status 1 when the input is missing,
\* otherwise calls process_audio
Main ==
    /\ pc = "main"
    /\ pc' = IF input_exists THEN "mkdir" ELSE "exited"
    /\ UNCHANGED <<use_demucs, DEMUCS_AVAILABLE, input_exists, dir_creatable,
                   max_duration, input_len,
                   results, stems, i, instrument_type, calls, outcome, amp>>
    /\ UNCHANGED <<predicted, raised, features, node_result>>

\* lines 172-175: the output directory is created before the try block, so
\* a failing mkdir leaves process_audio as an exception
MakeOutputDir ==
    /\ pc = "mkdir"
    /\ calls' = Append(calls, <<"mkdir", "output_dir">>)
    /\ pc' = IF dir_creatable THEN "transcribe_original" ELSE "raised"
    /\ results' = [success |-> FALSE, tracks |-> <<>>, error |-> None]
    /\ UNCHANGED <<use_demucs, DEMUCS_AVAILABLE, input_exists, dir_creatable,
                   max_duration, input_len,
                   stems, i, instrument_type, outcome, amp>>
    /\ UNCHANGED <<predicted, raised, features, node_result>>

\* lines 178-200: transcribe the original mix, then choose the branch
TranscribeOriginal ==
    /\ pc = "transcribe_original"
    /\ \E r \in audio_to_midi(input_exists, "original") :
          /\ calls' = Append(calls, <<"audio_to_midi", "original">>)
          /\ results' = AddIfSuccess(results, r, OriginalTrack(r))
          /\ outcome' = [outcome EXCEPT !["original"] = IF r.success THEN "ok" ELSE "failed"]
          /\ predicted' = [predicted EXCEPT !["original"] =
                              PredictInput(r, input_len, max_duration)]
    /\ pc' = IF SeparationBranch(use_demucs, DEMUCS_AVAILABLE)
             THEN "separate" ELSE "classify"
    /\ UNCHANGED <<use_demucs, DEMUCS_AVAILABLE, input_exists, dir_creatable,
                   max_duration, input_len,
                   stems, i, instrument_type, amp>>
    /\ UNCHANGED <<raised, features, node_result>>

\* lines 204, 103-156: separate_audio_demucs returns the stems
SeparateOk ==
    /\ pc = "separate"
    /\ DEMUCS_AVAILABLE
    /\ input_exists
    /\ calls' = Append(calls, <<"separate_audio_demucs", "input">>)
    /\ stems' = DeclaredStems
    /\ i' = 1
    /\ pc' = "stem_loop"
    /\ UNCHANGED <<use_demucs, DEMUCS_AVAILABLE, input_exists, dir_creatable,
                   max_duration, input_len,
                   results, instrument_type, outcome, amp>>
    /\ UNCHANGED <<predicted, raised, features, node_result>>

\* lines 109-111, 157-161, 274-278: separate_audio_demucs raises; the
\* handler of process_audio stores the message and the function returns
SeparateRaises ==
    /\ pc = "separate"
    /\ calls' = Append(calls, <<"separate_audio_demucs", "input">>)
    /\ IF ~DEMUCS_AVAILABLE
       THEN /\ raised' = <<"Demucs is not installed">>
            /\ results' = Handler(results, raised')
       ELSE \E m \in IF input_exists THEN {LoadError, ModelError} ELSE {LoadError} :
               /\ raised' = <<m>>
               /\ results' = Handler(results, SeparationError(m))
    /\ pc' = OnSeparationError
    /\ UNCHANGED <<use_demucs, DEMUCS_AVAILABLE, input_exists, dir_creatable,
                   max_duration, input_len,
                   stems, i, instrument_type, outcome, amp>>
    /\ UNCHANGED <<predicted, features, node_result>>

\* the loop leaving one stem early
NextStem_SkipLast == IF i >= Len(stems) - 1 THEN "aggregate" ELSE "stem_loop"

\* where the loop at line 208 goes after the stem at index i
NextStem == IF i = Len(stems) THEN "aggregate" ELSE "stem_loop"

\* the loop left at the first missing stem file
AfterMissingStem_Break == "aggregate"

\* line 212: continue with the next stem
AfterMissingStem == NextStem

\* lines 208-212: the stem's file does not exist: continue
StemMissing ==
    /\ pc = "stem_loop"
    /\ calls' = Append(calls, <<"exists", stems[i]>>)
    /\ outcome' = [outcome EXCEPT ![stems[i]] = "missing"]
    /\ i' = i + 1
    /\ pc' = AfterMissingStem
    /\ UNCHANGED <<use_demucs, DEMUCS_AVAILABLE, input_exists, dir_creatable,
                   max_duration, input_len,
                   results, stems, instrument_type, amp>>
    /\ UNCHANGED <<predicted, raised, features, node_result>>

\* lines 214-218, 274-278: librosa.load or np.max raises during the silence
\* check (an unreadable or zero-length stem); nothing in the loop catches
\* it, so the top-level handler ends the run
StemSilenceCheckRaises ==
    /\ pc = "stem_loop"
    /\ calls' = calls \o <<(<<"exists", stems[i]>>), (<<"silence_check", stems[i]>>)>>
    /\ outcome' = [outcome EXCEPT ![stems[i]] = "check_raised"]
    /\ \E m \in {LoadError, EmptyError} :
          /\ raised' = <<m>>
          /\ results' = Handler(results, <<m>>)
    /\ pc' = "returned"
    /\ UNCHANGED <<use_demucs, DEMUCS_AVAILABLE, input_exists, dir_creatable,
                   max_duration, input_len,
                   stems, i, instrument_type, amp>>
    /\ UNCHANGED <<predicted, features, node_result>>

\* lines 214-224: the stem's peak amplitude is below the threshold: continue
StemSilent ==
    /\ pc = "stem_loop"
    /\ \E max_amplitude \in Amps :
          /\ IsSilent(max_amplitude)
          /\ amp' = [amp EXCEPT ![stems[i]] = max_amplitude]
    /\ calls' = calls \o <<(<<"exists", stems[i]>>), (<<"silence_check", stems[i]>>)>>
    /\ outcome' = [outcome EXCEPT ![stems[i]] = "silent"]
    /\ i' = i + 1
    /\ pc' = NextStem
    /\ UNCHANGED <<use_demucs, DEMUCS_AVAILABLE, input_exists, dir_creatable,
                   max_duration, input_len,
                   results, stems, instrument_type>>
    /\ UNCHANGED <<predicted, raised, features, node_result>>

\* lines 214-251: the stem passes the silence check and is transcribed; a
\* track is appended when the transcription succeeds
StemTranscribe ==
    /\ pc = "stem_loop"
    /\ \E max_amplitude \in Amps :
          /\ ~IsSilent(max_amplitude)
          /\ amp' = [amp EXCEPT ![stems[i]] = max_amplitude]
    /\ calls' = calls \o <<(<<"exists", stems[i]>>), (<<"silence_check", stems[i]>>),
                           (<<"audio_to_midi", stems[i]>>)>>
    /\ \E r \in audio_to_midi(TRUE, StemInstrument(stems[i])) :
          /\ results' = AddIfSuccess(results, r,
                                     StemTrack(stems[i], StemInstrument(stems[i]), r))
          /\ outcome' = [outcome EXCEPT ![stems[i]] = IF r.success THEN "ok" ELSE "failed"]
          /\ predicted' = [predicted EXCEPT ![stems[i]] =
                              PredictInput(r, StemDuration, max_duration)]
    /\ i' = i + 1
    /\ pc' = NextStem
    /\ UNCHANGED <<use_demucs, DEMUCS_AVAILABLE, input_exists, dir_creatable,
                   max_duration, input_len,
                   stems, instrument_type>>
    /\ UNCHANGED <<raised, features, node_result>>

\* lines 252-254, 28-47: the fallback branch classifies the full mix; a
\* failing load or feature computation yields "other"
Classify ==
    /\ pc = "classify"
    /\ calls' = Append(calls, <<"classify_instrument", "input">>)
    /\ \/ /\ features' = NoFeatures
          /\ instrument_type' = ClassifyOnError
       \/ /\ input_exists
          /\ \E c \in Centroids, r \in Rolloffs, z \in Zcrs :
                /\ features' = [ok |-> TRUE, centroid |-> c, rolloff |-> r, zcr |-> z]
                /\ instrument_type' = classify_instrument(c, r, z)
    /\ pc' = "transcribe_full"
    /\ UNCHANGED <<use_demucs, DEMUCS_AVAILABLE, input_exists, dir_creatable,
                   max_duration, input_len,
                   results, stems, i, outcome, amp>>
    /\ UNCHANGED <<predicted, raised, node_result>>

\* lines 255-266: the fallback branch transcribes the full mix
TranscribeFull ==
    /\ pc = "transcribe_full"
    /\ calls' = Append(calls, <<"audio_to_midi", "full">>)
    /\ \E r \in audio_to_midi(input_exists, instrument_type) :
          /\ results' = AddIfSuccess(results, r, FullTrack(instrument_type, r))
          /\ outcome' = [outcome EXCEPT !["full"] = IF r.success THEN "ok" ELSE "failed"]
          /\ predicted' = [predicted EXCEPT !["full"] =
                              PredictInput(r, input_len, DefaultMaxDuration)]
    /\ pc' = "aggregate"
    /\ UNCHANGED <<use_demucs, DEMUCS_AVAILABLE, input_exists, dir_creatable,
                   max_duration, input_len,
                   stems, i, instrument_type, amp>>
    /\ UNCHANGED <<raised, features, node_result>>

\* lines 268-273, 278: set success and return
Finish ==
    /\ pc = "aggregate"
    /\ results' = Aggregate(results)
    /\ pc' = "returned"
    /\ UNCHANGED <<use_demucs, DEMUCS_AVAILABLE, input_exists, dir_creatable,
                   max_duration, input_len,
                   stems, i, instrument_type, calls, outcome, amp>>
    /\ UNCHANGED <<predicted, raised, features, node_result>>

\* node_transcribe.py lines 28-71: main() transcribes and prints its record
NodeTranscribe ==
    /\ pc = "node_main"
    /\ \E note_events \in NoteEventLists : node_result' = NodeResult(note_events)
    /\ pc' = "node_printed"
    /\ UNCHANGED <<use_demucs, DEMUCS_AVAILABLE, input_exists, dir_creatable,
                   max_duration, input_len,
                   results, stems, i, instrument_type, calls, outcome, amp,
                   predicted, raised, features>>

\* node_transcribe.py lines 30-46: mkdir, predict or the MIDI write raises;
\* main() has no handler, so the script ends with a traceback
NodeRaises ==
    /\ pc = "node_main"
    /\ pc' = "node_raised"
    /\ UNCHANGED <<use_demucs, DEMUCS_AVAILABLE, input_exists, dir_creatable,
                   max_duration, input_len,
                   results, stems, i, instrument_type, calls, outcome, amp,
                   predicted, raised, features, node_result>>

Next ==
    \/ NodeTranscribe
    \/ NodeRaises
    \/ Main
    \/ MakeOutputDir
    \/ TranscribeOriginal
    \/ SeparateOk
    \/ SeparateRaises
    \/ StemMissing
    \/ StemSilenceCheckRaises
    \/ StemSilent
    \/ StemTranscribe
    \/ Classify
    \/ TranscribeFull
    \/ Finish

Spec == Init /\ [][Next]_vars

(***************************************************************************)
(* Derived views of the state used by the properties                      *)
(***************************************************************************)

\* process_audio has returned its result dict to the caller
Returned == pc = "returned"

\* stem names of the tracks of the result, in order
TrackStems == [k \in 1..Len(results.tracks) |-> results.tracks[k].stem]

TrackStemSet == {TrackStems[k] : k \in 1..Len(TrackStems)}

\* the collaborator calls made so far
CallSet == {calls[k] : k \in 1..Len(calls)}

TypeOK ==
    /\ pc \in {"main", "mkdir", "transcribe_original", "separate", "stem_loop",
               "classify", "transcribe_full", "aggregate", "returned", "raised", "exited",
               "node_main", "node_printed", "node_raised"}
    /\ results.success \in BOOLEAN
    /\ TrackStemSet \subseteq StemNames \cup {"original", "full"}

(***************************************************************************)
(* Further views                                                           *)
(***************************************************************************)

\* the last collaborator call made
LastCall == IF calls = <<>> THEN <<"none", "none">> ELSE calls[Len(calls)]

\* process_audio returned because separate_audio_demucs raised
SeparationRaised == Returned /\ LastCall[1] = "separate_audio_demucs"

\* separate_audio_demucs returned the stems
SeparationPerformed == stems # <<>>

\* the error message names the separation stage
MentionsSeparation(err) ==
    err # None /\ err[1] \in {"Demucs is not installed", "Demucs separation failed: "}

\* position of a stem name in the declared stem list
DeclaredIndex(s) == CHOOSE k \in 1..Len(DeclaredStems) : DeclaredStems[k] = s

\* the stems the run transcribed successfully, in declared order
OkStems == SelectSeq(DeclaredStems, LAMBDA s : outcome[s] = "ok")

\* the stems whose measured peak amplitude reaches the threshold, in declared order
LoudStems == SelectSeq(DeclaredStems, LAMBDA s : amp[s] >= SilenceThreshold)

OriginalPrefix == IF outcome["original"] = "ok" THEN <<"original">> ELSE <<>>

(***************************************************************************)
(* Properties                                                              *)
(***************************************************************************)

\* C1: every result process_audio returns has success true exactly when
\* its tracks list is non-empty.
C1_SuccessIffTracks ==
    Returned => (results.success = (Len(results.tracks) > 0))

\* C2: when separation was requested and the separation stage raised, the
\* returned result has no tracks, success false and a non-null error,
\* whether or not the original-mix transcription succeeded.
C2_SeparationRaiseEmptiesResult ==
    SeparationRaised =>
        /\ results.tracks = <<>>
        /\ results.success = FALSE
        /\ results.error # None

C4_NeverPropagates == pc # "raised"

\* C5: with separation performed, when exactly one stem's transcription
\* fails and every other stem is transcribed successfully or dropped, the
\* tracks are the original (if it succeeded) followed by every successfully
\* transcribed stem, the failing stem is absent, and error is null.
C5_OneStemFailureIsIsolated ==
    (/\ Returned
     /\ SeparationPerformed
     /\ Cardinality({s \in StemNames : outcome[s] = "failed"}) = 1
     /\ \A s \in StemNames : outcome[s] \in {"failed", "ok", "silent", "missing"})
    =>
        /\ TrackStems = OriginalPrefix \o OkStems
        /\ \A s \in StemNames : outcome[s] = "failed" => s \notin TrackStemSet
        /\ \A s \in StemNames : (amp[s] >= SilenceThreshold /\ outcome[s] # "failed")
                                  => s \in TrackStemSet
        /\ results.error = None

C5_Witness ==
    /\ Returned
    /\ outcome["bass"] = "failed"
    /\ TrackStems = <<"original", "drums", "other", "vocals">>
    /\ results.error = None

\* C6: a raising silence check never fails the run: the stem counts as not
\* silent and is handed to transcription, the remaining stems are still
\* processed, and error stays null.
C6_SilenceCheckFailsOpen ==
    \A s \in StemNames :
        outcome[s] = "check_raised" =>
            /\ results.error = None
            /\ <<"audio_to_midi", s>> \in CallSet
            /\ Returned => \A t \in StemNames : outcome[t] # "pending"

\* the calls that transcribe, separate or classify audio
AnalysisCalls == {c \in CallSet : c[1] \in {"audio_to_midi", "separate_audio_demucs",
                                            "classify_instrument"}}

\* C7: a missing input file fails the run at its start, before any
\* transcription, separation or classification is attempted, and the
\* result has success false, no tracks and a non-null error.
C7_MissingInputFailsAtInit ==
    ~input_exists =>
        /\ AnalysisCalls = {}
        /\ Returned => /\ results.success = FALSE
                       /\ results.tracks = <<>>
                       /\ results.error # None

\* C8: in every result the "original" track, if present, is at index 0,
\* and the separated-stem tracks follow it in the relative order of the
\* declared stem list, whatever stems were dropped or failed.
C8_TrackOrder ==
    /\ \A k \in 1..Len(TrackStems) : TrackStems[k] = "original" => k = 1
    /\ \A j, k \in 1..Len(TrackStems) :
          (j < k /\ TrackStems[j] \in StemNames /\ TrackStems[k] \in StemNames)
              => DeclaredIndex(TrackStems[j]) < DeclaredIndex(TrackStems[k])

C8_Witness ==
    /\ Returned
    /\ TrackStems = <<"original", "bass", "vocals">>
    /\ outcome["drums"] = "silent"
    /\ outcome["other"] = "failed"

\* C9: with separation succeeding and every transcription succeeding, the
\* tracks are exactly the original followed by one track per non-silent
\* stem: 1 + n tracks when all n declared stems are non-silent (5 for the
\* four declared stems), one fewer for each silent stem.
C9_OneTrackPerNonSilentStem ==
    (/\ Returned
     /\ SeparationPerformed
     /\ outcome["original"] = "ok"
     /\ \A s \in StemNames : outcome[s] \notin {"failed", "check_raised", "missing"})
    =>
        /\ TrackStems = <<"original">> \o LoudStems
        /\ Len(results.tracks) =
              1 + Len(DeclaredStems)
                - Cardinality({s \in StemNames : amp[s] >= 0 /\ amp[s] < SilenceThreshold})
        /\ (\A s \in StemNames : amp[s] >= SilenceThreshold) => Len(results.tracks) = 5

C9_Witness ==
    /\ Returned
    /\ \A s \in StemNames : amp[s] >= SilenceThreshold
    /\ TrackStems = <<"original", "drums", "bass", "other", "vocals">>

\* C10: a stem whose measured peak amplitude is below 0.001 has no track
\* and is never handed to the transcription adapter; a stem whose peak is
\* at or above 0.001 is handed to it, and has a track when it succeeds.
C10_SilentStemsExcluded ==
    \A s \in StemNames :
        /\ (amp[s] >= 0 /\ amp[s] < SilenceThreshold) =>
              /\ s \notin TrackStemSet
              /\ <<"audio_to_midi", s>> \notin CallSet
        /\ amp[s] >= SilenceThreshold =>
              /\ <<"audio_to_midi", s>> \in CallSet
              /\ outcome[s] \in {"ok", "failed"}
              /\ outcome[s] = "ok" <=> s \in TrackStemSet

C10_Witness ==
    /\ Returned
    /\ amp["vocals"] = SilenceThreshold - 1
    /\ "vocals" \notin TrackStemSet
    /\ amp["drums"] = SilenceThreshold
    /\ "drums" \in TrackStemSet

\* C11: in every result a track whose stem is "other" has instrument
\* "transcribed", never "other"; every other separated-stem track has its
\* stem name as instrument.
C11_OtherRelabelled ==
    \A k \in 1..Len(results.tracks) :
        LET t == results.tracks[k]
        IN  /\ t.stem = "other" => (t.instrument = "transcribed" /\ t.instrument # "other")
            /\ t.stem \in StemNames \ {"other"} => t.instrument = t.stem

C11_Witness ==
    /\ Returned
    /\ \E j, k \in 1..Len(results.tracks) :
          /\ results.tracks[j].stem = "bass" /\ results.tracks[j].instrument = "bass"
          /\ results.tracks[k].stem = "other" /\ results.tracks[k].instrument = "transcribed"

\* the "full" track, when the fallback transcription succeeded
FullSuffix == IF outcome["full"] = "ok" THEN <<"full">> ELSE <<>>

\* C12 (as stated): with separation disabled the tracks list has at most
\* one entry, and that entry is the "full" track.
C12_AtMostTheFullTrack ==
    (Returned /\ ~use_demucs) =>
        /\ Len(results.tracks) <= 1
        /\ \A k \in 1..Len(results.tracks) : results.tracks[k].stem = "full"

\* C12 (amended): with separation disabled the tracks list has at most two
\* entries: the "original" track if its transcription succeeded, followed
\* by the "full" track if its transcription succeeded; no other track.
C12_OriginalThenFull ==
    (Returned /\ ~use_demucs) =>
        /\ TrackStems = OriginalPrefix \o FullSuffix
        /\ Len(results.tracks) <= 2
        /\ Cardinality({k \in 1..Len(results.tracks) : results.tracks[k].stem = "full"}) <= 1

C12_Witness ==
    /\ Returned /\ ~use_demucs /\ DEMUCS_AVAILABLE
    /\ Len(results.tracks) = 2
    /\ results.tracks[1].stem = "original"
    /\ results.tracks[2].stem = "full"

\* every note of every track of the result
ResultNotes ==
    UNION {{results.tracks[k].notes[n] : n \in 1..Len(results.tracks[k].notes)} :
             k \in 1..Len(results.tracks)}

\* C13: every note of every track has a velocity in the range [0,1].
C13_VelocityInUnitRange ==
    \A note \in ResultNotes : note.velocity >= 0 /\ note.velocity <= 1

\* C14: every track of the result has note_count equal to the length of
\* its notes list, and the record the standalone transcription script
\* prints has note_count equal to the length of its notes array.
C14_NoteCountMatches ==
    /\ \A k \in 1..Len(results.tracks) :
          results.tracks[k].note_count = Len(results.tracks[k].notes)
    /\ pc = "node_printed" => node_result.note_count = Len(node_result.notes)

C14_Witness ==
    /\ Returned
    /\ \E k \in 1..Len(results.tracks) :
          results.tracks[k].note_count = MaxNotes /\ Len(results.tracks[k].notes) = MaxNotes

C14_NodeWitness ==
    pc = "node_printed" /\ node_result.note_count = MaxNotes

\* C15: the transcription of the unmodified input (stem "original",
\* instrument "transcribed") comes before any separation, classification
\* or stem transcription; when it fails no track is added for it, it sets
\* no error, and the run goes on to the separation or the fallback stage.
C15_OriginalFirst ==
    /\ \A k \in 1..Len(calls) :
          calls[k][1] \in {"audio_to_midi", "separate_audio_demucs", "classify_instrument",
                           "silence_check"}
              => \E j \in 1..k : calls[j] = <<"audio_to_midi", "original">>
    /\ \A k \in 1..Len(results.tracks) :
          results.tracks[k].stem = "original" => results.tracks[k].instrument = "transcribed"
    /\ outcome["original"] = "failed" =>
          /\ "original" \notin TrackStemSet
          /\ LastCall = <<"audio_to_midi", "original">> =>
                /\ results.error = None
                /\ results.tracks = <<>>
                /\ pc \in {"separate", "classify"}
          /\ results.error # None => LastCall[1] \in {"separate_audio_demucs", "silence_check"}
          /\ Returned => \E c \in CallSet : c[1] \in {"separate_audio_demucs",
                                                     "classify_instrument"}

C15_Witness ==
    /\ Returned
    /\ outcome["original"] = "failed"
    /\ TrackStems = <<"drums", "bass", "other", "vocals">>
    /\ results.error = None

\* C16 (as stated): when the separation model invocation raises, the error
\* of the result is the underlying exception's message, nothing added.
C16_ErrorVerbatim ==
    SeparationRaised => results.error = raised

\* C16 (amended): when the separation model invocation raises, the error
\* of the result is "Demucs separation failed: " followed by the underlying
\* exception's message.
C16_ErrorPrefixed ==
    SeparationRaised =>
        /\ raised # None
        /\ results.error = <<"Demucs separation failed: ">> \o raised

C16_Witness ==
    SeparationRaised /\ raised = <<ModelError>> /\ Len(results.error) = 2

\* C17: every transcription of the run hands at most the first
\* max_duration seconds of audio to the pitch-detection model.
C17_PredictInputCapped ==
    \A src \in DOMAIN predicted :
        predicted[src] # -1 => predicted[src] <= max_duration

\* C18: classify_instrument returns the label of the first matching rule:
\* centroid > 3000 and zcr < 0.10 gives "brass" if rolloff > 5000, else
\* "strings"; else zcr > 0.15 gives "guitar"; else 1000 < centroid < 2500
\* gives "piano"; otherwise "synth"; values on a boundary match no rule.
C18_ClassifierDecision ==
    features.ok =>
        LET c == features.centroid
            r == features.rolloff
            z == features.zcr
            rule1 == c >= 3001 /\ z <= 9
            rule2 == z >= 16
            rule3 == c \in 1001..2499
        IN  /\ (rule1 /\ r >= 5001) => instrument_type = "brass"
            /\ (rule1 /\ r <= 5000) => instrument_type = "strings"
            /\ (~rule1 /\ rule2) => instrument_type = "guitar"
            /\ (~rule1 /\ ~rule2 /\ rule3) => instrument_type = "piano"
            /\ (~rule1 /\ ~rule2 /\ ~rule3) => instrument_type = "synth"
            /\ (c = 3000 \/ z = 10) => instrument_type \notin {"brass", "strings"}
            /\ z = 15 => instrument_type # "guitar"
            /\ c \in {1000, 2500} => instrument_type # "piano"

C18_Witness ==
    /\ features.ok
    /\ features.centroid = 1500 /\ features.zcr = 16
    /\ instrument_type = "guitar"

\* the classifier was called and its feature computation raised
ClassifierFailed == <<"classify_instrument", "input">> \in CallSet /\ ~features.ok

\* C19: when loading the audio or computing a feature fails, the
\* classifier returns "other" and raises nothing; the run goes on to
\* transcribe the full mix under the label "other" and error stays null.
C19_ClassifierFailsToOther ==
    ClassifierFailed =>
        /\ instrument_type = "other"
        /\ pc \in {"transcribe_full", "aggregate", "returned"}
        /\ results.error = None
        /\ pc # "transcribe_full" => <<"audio_to_midi", "full">> \in CallSet
        /\ \A k \in 1..Len(results.tracks) :
              results.tracks[k].stem = "full" => results.tracks[k].instrument = "other"

C19_Witness ==
    /\ Returned /\ ClassifierFailed
    /\ \E k \in 1..Len(results.tracks) :
          results.tracks[k].stem = "full" /\ results.tracks[k].instrument = "other"

\* C20: the classifier and the separation adapter are never both called in
\* one run, the classifier runs only when the separation branch is not
\* taken, and no result has both a "full" track and a separated-stem track.
C20_ClassifierXorSeparation ==
    /\ ~(/\ <<"classify_instrument", "input">> \in CallSet
         /\ <<"separate_audio_demucs", "input">> \in CallSet)
    /\ <<"classify_instrument", "input">> \in CallSet => ~(use_demucs /\ DEMUCS_AVAILABLE)
    /\ <<"separate_audio_demucs", "input">> \in CallSet => (use_demucs /\ DEMUCS_AVAILABLE)
    /\ ~("full" \in TrackStemSet /\ TrackStemSet \cap StemNames # {})

C20_Witness ==
    /\ Returned
    /\ <<"separate_audio_demucs", "input">> \in CallSet
    /\ <<"classify_instrument", "input">> \notin CallSet
    /\ TrackStemSet \cap StemNames # {}

\* C21 (as stated): with separation disabled, success is true only if some
\* returned track contains at least one note, and is false when the
\* transcription succeeds but yields no note.
C21_SuccessMeansNotes ==
    (Returned /\ ~use_demucs) => (results.success => ResultNotes # {})

\* C21 (amended): with separation disabled, success reflects whether a
\* track was produced, not whether notes were found: it is true exactly
\* when the original or the full-mix transcription succeeded, also when
\* every track has zero notes.
C21_SuccessMeansTracks ==
    (Returned /\ ~use_demucs) =>
        /\ results.success = (outcome["original"] = "ok" \/ outcome["full"] = "ok")
        /\ results.success = (Len(results.tracks) > 0)

C21_Witness ==
    /\ Returned /\ ~use_demucs
    /\ results.success
    /\ Len(results.tracks) = 2
    /\ ResultNotes = {}

\* the stage of the run a collaborator call belongs to: 0 INIT,
\* 1 TRANSCRIBE_ORIGINAL, 2 SEPARATE or the classifier of the fallback,
\* 3 stem filtering and transcription or the full-mix transcription
StageOf(c) ==
    IF c[1] = "mkdir" THEN 0
    ELSE IF c = <<"audio_to_midi", "original">> THEN 1
    ELSE IF c[1] \in {"separate_audio_demucs", "classify_instrument"} THEN 2
    ELSE 3

\* how many times a call occurs in the log
Occurrences(c) == Cardinality({k \in 1..Len(calls) : calls[k] = c})

\* the calls are in stage order, and the stems are examined in declared order
StageOrderKept ==
    /\ \A j, k \in 1..Len(calls) : j < k => StageOf(calls[j]) <= StageOf(calls[k])
    /\ \A j, k \in 1..Len(calls) :
          (j < k /\ calls[j][2] \in StemNames /\ calls[k][2] \in StemNames)
              => DeclaredIndex(calls[j][2]) <= DeclaredIndex(calls[k][2])

\* no stage is entered twice and no stem is examined twice
StagesEnteredOnce ==
    /\ \A c \in {<<"mkdir", "output_dir">>, <<"audio_to_midi", "original">>,
                 <<"separate_audio_demucs", "input">>, <<"classify_instrument", "input">>,
                 <<"audio_to_midi", "full">>} : Occurrences(c) <= 1
    /\ \A st \in StemNames :
          \A op \in {"exists", "silence_check", "audio_to_midi"} : Occurrences(<<op, st>>) <= 1

\* the terminal states of the orchestrator
Done == Returned /\ results.error = None
Failed == Returned /\ results.error # None

\* a run of process_audio has ended, by a return or by an exception
RunEnded == pc \in {"returned", "raised"}

\* C22: every run of process_audio ends in exactly one terminal state,
\* DONE or FAILED, after visiting the stages in order (TRANSCRIBE_ORIGINAL,
\* SEPARATE if requested, stem filtering and transcription, aggregation),
\* with each declared stem examined at most once and no stage re-entered.
C22_EndsDoneOrFailedInOrder ==
    /\ RunEnded => (Done \/ Failed) /\ ~(Done /\ Failed)
    /\ StageOrderKept
    /\ StagesEnteredOnce

\* one sequence is an initial part of another
IsPrefix(a, b) == Len(a) <= Len(b) /\ \A k \in 1..Len(a) : a[k] = b[k]

\* C23: the tracks list is append-only: no step of process_audio, the
\* top-level exception handler included, removes, reorders or modifies a
\* track already appended, so every appended track is in the result.
C23_TracksAppendOnly ==
    [][IsPrefix(results.tracks, results'.tracks)]_vars

C23_Witness ==
    /\ Returned
    /\ results.error # None
    /\ TrackStems = <<"original", "drums">>
    /\ outcome["bass"] = "check_raised"

\* the declared stem after a given one, if any
LaterStems(st) == {t \in StemNames : DeclaredIndex(t) > DeclaredIndex(st)}

\* C24: a stem whose audio file does not exist is skipped without a
\* silence check or a transcription attempt, no track is produced for it,
\* the skip sets no error, and the remaining stems are still processed in
\* order.
C24_MissingStemSkipped ==
    \A st \in StemNames :
        outcome[st] = "missing" =>
            /\ <<"silence_check", st>> \notin CallSet
            /\ <<"audio_to_midi", st>> \notin CallSet
            /\ amp[st] = -1 /\ predicted[st] = -1
            /\ st \notin TrackStemSet
            /\ LastCall = <<"exists", st>> =>
                  /\ results.error = None
                  /\ pc \in IF LaterStems(st) = {} THEN {"aggregate", "returned"}
                            ELSE {"stem_loop"}
            /\ results.error # None => LastCall[1] = "silence_check"
            /\ (Returned /\ results.error = None) =>
                  \A t \in LaterStems(st) : <<"exists", t>> \in CallSet
            /\ \A j, k \in 1..Len(calls) :
                  (j < k /\ calls[j] = <<"exists", st>> /\ calls[k][1] = "exists")
                      => calls[k][2] \in LaterStems(st)

C24_Witness ==
    /\ Returned
    /\ outcome["bass"] = "missing"
    /\ TrackStems = <<"original", "drums", "other", "vocals">>
    /\ results.error = None
    /\ results.success

====
